---------------------------- MODULE Spec2Model ----------------------------
(***************************************************************************)
(* Packet transport kernel of tardis/montecarlo_multizone.pyx:             *)
(* montecarlo_radial1d (the driver over packets) and montecarlo_one_packet *)
(* (the per-packet event loop), with binary_search, macro_atom,            *)
(* move_packet and the compute_distance2* helpers.                         *)
(*                                                                         *)
(* Numbers.  The source computes in float64.  The model computes in exact  *)
(* rationals <<numerator, denominator>> (denominator >= 0, lowest terms);  *)
(* <<1,0>> is +inf and <<0,0>> is NaN, so that 1/0, 0*inf and comparisons  *)
(* with them behave as IEEE 754 does.  Direction cosines are drawn from    *)
(* {-1, +1} (radial flight): for these r^2 + d^2 + 2*r*d*mu is a perfect   *)
(* square and every sqrt of the source is exact.                           *)
(*                                                                         *)
(* Units.  Lengths are in units in which c * time_explosion = 12, and      *)
(* sigma_thomson = 1.                                                      *)
(***************************************************************************)
EXTENDS Integers, Sequences, FiniteSets, TLC

(***************************** model bounds ********************************)
MaxShells == 2
MaxLines == 3
MaxPackets == 1
MaxInteractions == 2

(*************************** exact arithmetic ******************************)
Abs(x) == IF x < 0 THEN -x ELSE x

Sign(x) == IF x < 0 THEN -1 ELSE IF x > 0 THEN 1 ELSE 0

RECURSIVE GCD(_, _)
GCD(a, b) == IF b = 0 THEN a ELSE GCD(b, a % b)

\* the float n/d; d = 0 gives +-inf (n # 0) or NaN (n = 0)
Rat(n, d) ==
    IF d = 0 THEN <<Sign(n), 0>>
    ELSE LET g == GCD(Abs(n), Abs(d))
         IN  <<Sign(d) * (n \div g), Abs(d) \div g>>

Whole(n) == <<n, 1>>

NaN == <<0, 0>>

IsNaN(a) == a = NaN

RAdd(a, b) ==
    IF a[2] = 0 \/ b[2] = 0 THEN Rat(a[1] * b[2] + b[1] * a[2], 0)
    ELSE LET g == GCD(a[2], b[2])
         IN  Rat(a[1] * (b[2] \div g) + b[1] * (a[2] \div g), a[2] * (b[2] \div g))

RNeg(a) == <<-a[1], a[2]>>

RSub(a, b) == RAdd(a, RNeg(b))

RMul(a, b) ==
    LET g1 == GCD(Abs(a[1]), b[2])
        g2 == GCD(Abs(b[1]), a[2])
    IN  IF a[2] = 0 \/ b[2] = 0 \/ g1 = 0 \/ g2 = 0 THEN Rat(a[1] * b[1], a[2] * b[2])
        ELSE Rat((a[1] \div g1) * (b[1] \div g2), (a[2] \div g2) * (b[2] \div g1))

RInv(a) == Rat(a[2], a[1])

RDiv(a, b) == RMul(a, RInv(b))

\* a < b and a <= b as the FPU decides them: false when either side is NaN
RLt(a, b) == a[1] * b[2] < b[1] * a[2]

RLe(a, b) == ~IsNaN(a) /\ ~IsNaN(b) /\ a[1] * b[2] <= b[1] * a[2]

RAbs(a) == <<Abs(a[1]), a[2]>>

\* floor of the square root, by bisection
RECURSIVE ISqrtIn(_, _, _)
ISqrtIn(n, lo, hi) ==
    IF lo >= hi THEN lo
    ELSE LET mid == (lo + hi + 1) \div 2
         IN  IF mid * mid <= n THEN ISqrtIn(n, mid, hi) ELSE ISqrtIn(n, lo, mid - 1)

ISqrt(n) == ISqrtIn(n, 0, IF n < 46340 THEN n ELSE 46340)

\* sqrt of a rational that is a perfect square (NaN for a negative argument)
RSqrt(a) ==
    IF a[1] < 0 \/ IsNaN(a) THEN NaN
    ELSE IF a[2] = 0 THEN a
    ELSE <<ISqrt(a[1]), ISqrt(a[2])>>

RSq(a) == RMul(a, a)

(*************************** program constants *****************************)
\* miss_distance = 1e99: a finite sentinel larger than every distance of the model
miss_value == 1000000

miss_distance == Whole(miss_value)

\* c and sigma_thomson in the model's units
c == 1

sigma_thomson == 1

inverse_c == RInv(Whole(c))

inverse_sigma_thomson == RInv(Whole(sigma_thomson))

\* the 1e-7 of the close-line test, scaled to the model's frequency grid
\* (adjacent grid frequencies 18 and 17 are "close", 17 and 14 are not)
close_line_tolerance == Rat(1, 10)

(****************************** the snapshot *******************************)
\* model.time_explosion and its precomputed inverse
time_explosion == 12

inverse_time_explosion == RInv(Whole(time_explosion))

\* rest frequencies the line lists are drawn from
NuGrid == {18, 17, 14}

\* frequencies, direction cosines and energies of the packet source
PacketNus == {12, 24}

PacketMus == {-1, 1}

PacketEnergies == {1}

\* what rk_double can make of -log(U), of 2*U - 1 and of U
TauEvents == {1, 4, 40}

ScatterMus == {-1, 1}

EventRandoms == {Rat(0, 1), Rat(3, 4)}

\* what a read beyond the end of an array finds: one memory image per run
\* (a float after line_list_nu, one after the tau and probability tables, an integer)
Beyond == { [nu |-> Whole(5), tau |-> Whole(0), int |-> -1],
            [nu |-> Whole(30), tau |-> Whole(9), int |-> 0] }

\* strictly decreasing line lists of length L over NuGrid
LineLists(L) ==
    { f \in [0 .. L - 1 -> NuGrid] : \A a, b \in 0 .. L - 1 : a < b => f[a] > f[b] }

AllLineLists == UNION { LineLists(L) : L \in 0 .. MaxLines }

\* model.tau_sobolevs[s, l]: one value per (shell, line), each entry distinct
TauEntry(s, l) == Whole(2 + 2 * l + 7 * s)

\* model.atom_data, the macro atom of a line list of L lines: level k is the upper
\* level of line k and owns transitions 2k and 2k+1.  DOWNBRANCH (1): both are
\* emissions, on line k and on the reddest line.  MACRO (2): 2k is an internal jump
\* to the next level, 2k+1 the emission on line k.
AtomData(L, mode) ==
    [ lines_upper2macro_reference_idx |-> [k \in 0 .. L - 1 |-> k],
      block_references |-> [m \in 0 .. L |-> 2 * m],
      transition_type |->
          [t \in 0 .. 2 * L - 1 |-> IF mode = 2 /\ t % 2 = 0 THEN 0 ELSE -1],
      destination_level_idx |->
          [t \in 0 .. 2 * L - 1 |-> IF t % 2 = 0 THEN ((t \div 2) + 1) % L ELSE t \div 2],
      lines_idx |->
          [t \in 0 .. 2 * L - 1 |-> IF mode = 1 /\ t % 2 = 1 THEN L - 1 ELSE t \div 2] ]

\* model.transition_probabilities[s, t]: in even shells the two transitions of a
\* level share the probability, in odd shells the second has all of it
TransitionProbability(s, t) == IF s % 2 = 0 THEN Rat(1, 2) ELSE Whole(t % 2)

\* the model object montecarlo_radial1d is called with
Model(N, S, nus, mode, ne) ==
    LET L == Cardinality(DOMAIN nus)
    IN  [ no_of_packets |-> N,
          no_of_shells |-> S,
          r_inner |-> [s \in 0 .. S - 1 |-> Whole(2 + 2 * s)],
          r_outer |-> [s \in 0 .. S - 1 |-> Whole(4 + 2 * s)],
          electron_density |-> [s \in 0 .. S - 1 |-> Whole(ne)],
          line_list_nu |-> [k \in 0 .. L - 1 |-> Whole(nus[k])],
          tau_sobolevs |-> [s \in 0 .. S - 1 |-> [l \in 0 .. L - 1 |-> TauEntry(s, l)]],
          line_interaction_id |-> mode,
          transition_probabilities |->
              [s \in 0 .. S - 1 |-> [t \in 0 .. 2 * L - 1 |-> TransitionProbability(s, t)]],
          atom_data |-> AtomData(L, mode) ]

\* the data of a 2-d array, row-major: m[s][k] at s * rowlen + k
Flat(m, rows, rowlen) ==
    [k \in 0 .. rows * rowlen - 1 |-> m[k \div rowlen][k % rowlen]]

\* a pointer attribute of StorageModel: NULL until __init__ assigns it, then the
\* data of an array
NULL == [null |-> TRUE, data |-> <<>>]

Data(array) == [null |-> FALSE, data |-> array]

\* StorageModel.__init__, lines 92-178: the fields the kernel reads, each wired
\* as __init__ wires it; beyond is what lies after the arrays
StorageModel(model, beyond) ==
    LET S == model.no_of_shells
        L == Cardinality(DOMAIN model.line_list_nu)
        T == Cardinality(DOMAIN model.atom_data.transition_type)
        macro == model.line_interaction_id >= 1
    IN  [ no_of_packets |-> model.no_of_packets,
          no_of_shells |-> S,
          r_inner |-> model.r_inner,
          r_outer |-> model.r_outer,
          electron_density |-> model.electron_density,
          inverse_electron_density |->
              [s \in 0 .. S - 1 |-> RInv(model.electron_density[s])],
          line_list_nu |-> model.line_list_nu,
          no_of_lines |-> L,
          line_lists_tau_sobolevs |-> Flat(model.tau_sobolevs, S, L),
          line_lists_tau_sobolevs_nd |-> S,
          line_interaction_id |-> model.line_interaction_id,
          transition_probabilities |->
              IF macro THEN Data(Flat(model.transition_probabilities, S, T))
              ELSE NULL,
          transition_probabilities_nd |-> IF macro THEN S ELSE 0,
          line2macro_level_upper |->
              IF macro THEN Data(model.atom_data.lines_upper2macro_reference_idx) ELSE NULL,
          macro_block_references |->
              IF macro THEN Data(model.atom_data.block_references) ELSE NULL,
          transition_type |->
              IF macro THEN Data(model.atom_data.block_references) ELSE NULL,
          destination_level_id |->
              IF macro THEN Data(model.atom_data.lines_idx) ELSE NULL,
          transition_line_id |-> NULL,
          beyond |-> beyond ]

Models(Ns) ==
    { Model(N, S, nus, mode, ne) :
        N \in Ns, S \in 1 .. MaxShells, nus \in AllLineLists,
        mode \in {0, 1, 2}, ne \in {0, 1} }

Snapshots ==
    { StorageModel(model, beyond) : model \in Models(1 .. MaxPackets), beyond \in Beyond }

(***************************** pure functions ******************************)
\* binary_search, lines 213-230: nu is the array, read at imid only
RECURSIVE binary_search(_, _, _, _)
binary_search(nu, nu_insert, imin, imax) ==
    IF imax - imin > 2
    THEN LET imid == (imin + imax) \div 2
         IN  IF RLt(nu[imid], nu_insert)
             THEN binary_search(nu, nu_insert, imin, imid + 1)
             ELSE binary_search(nu, nu_insert, imid, imax)
    ELSE imin + 1

\* 1 - mu * r * inverse_t_exp * inverse_c, lines 274, 327, 455
DopplerFactor(r, mu) ==
    RSub(Whole(1), RMul(RMul(RMul(mu, r), inverse_time_explosion), inverse_c))

\* compute_distance2outer, lines 302-305
compute_distance2outer(r, mu, r_outer) ==
    RSub(RSqrt(RAdd(RSq(r_outer), RMul(RSub(RSq(mu), Whole(1)), RSq(r)))),
         RMul(r, mu))

\* compute_distance2inner, lines 307-319
compute_distance2inner(r, mu, r_inner) ==
    LET check == RAdd(RSq(r_inner), RMul(RSq(r), RSub(RSq(mu), Whole(1))))
    IN  IF RLt(check, Whole(0)) THEN miss_distance
        ELSE IF RLt(mu, Whole(0)) THEN RSub(RMul(RNeg(r), mu), RSqrt(check))
        ELSE miss_distance

\* compute_distance2line, lines 321-345 (the warning it prints changes nothing)
compute_distance2line(r, mu, nu, nu_line) ==
    LET comov_nu == RMul(nu, DopplerFactor(r, mu))
    IN  RMul(RMul(RDiv(RSub(comov_nu, nu_line), nu), Whole(c)), Whole(time_explosion))

\* compute_distance2electron, lines 347-349
compute_distance2electron(tau, inverse_ne) ==
    RMul(RMul(tau, inverse_ne), inverse_sigma_thomson)

C24_MutantMovePacket(r, mu, nu, energy, distance, J, nubar, cur_zone_id) ==
    [r |-> r, mu |-> mu, js |-> J, nubars |-> nubar,
     doppler_factor |-> DopplerFactor(r, mu)]

C25_MutantMovePacket(r, mu, nu, energy, distance, J, nubar, cur_zone_id) ==
    LET doppler_factor == DopplerFactor(r, mu)
        comov_energy == RMul(energy, doppler_factor)
        comov_nu == RMul(nu, doppler_factor)
        new_r == RSqrt(RAdd(RAdd(RSq(r), RSq(distance)),
                            RMul(RMul(RMul(Whole(2), r), distance), mu)))
    IN  [r |-> new_r,
         mu |-> RDiv(RAdd(RMul(mu, r), distance), new_r),
         js |-> [J EXCEPT ![cur_zone_id] = RAdd(@, RMul(comov_energy, distance))],
         nubars |-> [nubar EXCEPT ![cur_zone_id] =
                        RAdd(@, RMul(RMul(comov_energy, distance), comov_nu))],
         doppler_factor |-> doppler_factor]

C26_MutantMovePacket(r, mu, nu, energy, distance, J, nubar, cur_zone_id) ==
    LET doppler_factor == DopplerFactor(r, mu)
        comov_energy == RMul(energy, doppler_factor)
        comov_nu == RMul(nu, doppler_factor)
        new_r == RSqrt(RAdd(RAdd(RSq(r), RSq(distance)),
                            RMul(RMul(RMul(Whole(2), r), distance), mu)))
    IN  IF RLe(distance, Whole(0))
        THEN [r |-> r, mu |-> mu, js |-> J, nubars |-> nubar,
              doppler_factor |-> doppler_factor]
        ELSE [r |-> new_r,
              mu |-> RDiv(RAdd(RMul(mu, r), distance), new_r),
              js |-> [J EXCEPT ![0] = RAdd(@, RMul(comov_energy, distance))],
              nubars |-> [nubar EXCEPT ![0] =
                             RAdd(@, RMul(RMul(comov_energy, distance), comov_nu))],
              doppler_factor |-> doppler_factor]

\* move_packet, lines 264-300: the new r, mu, js, nubars and the returned factor
move_packet(r, mu, nu, energy, distance, J, nubar, cur_zone_id) ==
    LET doppler_factor == DopplerFactor(r, mu)
        comov_energy == RMul(energy, doppler_factor)
        comov_nu == RMul(nu, doppler_factor)
        new_r == RSqrt(RAdd(RAdd(RSq(r), RSq(distance)),
                            RMul(RMul(RMul(Whole(2), r), distance), mu)))
    IN  IF RLe(distance, Whole(0))
        THEN [r |-> r, mu |-> mu, js |-> J, nubars |-> nubar,
              doppler_factor |-> doppler_factor]
        ELSE [r |-> new_r,
              mu |-> RDiv(RAdd(RMul(mu, r), distance), new_r),
              js |-> [J EXCEPT ![cur_zone_id] = RAdd(@, RMul(comov_energy, distance))],
              nubars |-> [nubar EXCEPT ![cur_zone_id] =
                             RAdd(@, RMul(RMul(comov_energy, distance), comov_nu))],
              doppler_factor |-> doppler_factor]

(******************************* the state *********************************)
VARIABLES
    storage,                    \* StorageModel(model), never written after construction
    pc,                         \* "driver", "loop", "macro_atom", "returned", "done",
                                \* "crashed"
    i,                          \* the driver's packet index
    output_nus, output_energies,
    js, nubars,                 \* storage.js, storage.nubars
    \* the driver's running variables, passed by pointer to montecarlo_one_packet
    current_nu, current_energy, current_mu, current_shell_id, current_r,
    comov_current_nu, current_line_id, last_line, close_line,
    recently_crossed_boundary,
    reabsorbed,                 \* the driver's: what montecarlo_one_packet returned
    \* locals of montecarlo_one_packet
    tau_event, nu_line, tau_line, d_inner, d_outer, d_line, d_electron,
    emission_line_id, comov_current_energy, inverse_doppler_factor,
    loop_reabsorbed,            \* montecarlo_one_packet's own reabsorbed
    activate_level,             \* macro_atom's

    \* bookkeeping of the model
    event,                      \* the branch the last iteration took
    n_interactions              \* electron scatters and line interactions of the run

outVars == <<output_nus, output_energies>>

estVars == <<js, nubars>>

packetVars == <<current_nu, current_energy, current_mu, current_shell_id, current_r,
                comov_current_nu, current_line_id, last_line, close_line,
                recently_crossed_boundary>>

localVars == <<tau_event, nu_line, tau_line, d_inner, d_outer, d_line, d_electron,
               emission_line_id, comov_current_energy, inverse_doppler_factor,
               loop_reabsorbed, activate_level>>

vars == <<storage, pc, i, outVars, estVars, packetVars, reabsorbed, localVars,
          event, n_interactions>>

\* line_list_nu[k] as the build reads it: beyond the array, whatever lies there
ReadNu(k) ==
    IF k \in DOMAIN storage.line_list_nu THEN storage.line_list_nu[k]
    ELSE storage.beyond.nu

\* line_lists_tau_sobolevs[k], likewise
ReadTau(k) ==
    IF k \in DOMAIN storage.line_lists_tau_sobolevs
    THEN storage.line_lists_tau_sobolevs[k]
    ELSE storage.beyond.tau

\* transition_probabilities[k], likewise
ReadProbability(k) ==
    IF k \in DOMAIN storage.transition_probabilities.data
    THEN storage.transition_probabilities.data[k]
    ELSE storage.beyond.tau

\* an entry of one of the integer tables, likewise
ReadInt(table, k) == IF k \in DOMAIN table.data THEN table.data[k] ELSE storage.beyond.int

Init ==
    /\ storage \in Snapshots
    /\ pc = "driver"
    /\ i = 0
    /\ output_nus = [k \in 0 .. storage.no_of_packets - 1 |-> Whole(0)]
    /\ output_energies = [k \in 0 .. storage.no_of_packets - 1 |-> Whole(0)]
    /\ js = [s \in 0 .. storage.no_of_shells - 1 |-> Whole(0)]
    /\ nubars = [s \in 0 .. storage.no_of_shells - 1 |-> Whole(0)]
    /\ current_nu = Whole(0) /\ current_energy = Whole(0) /\ current_mu = Whole(0)
    /\ current_shell_id = 0 /\ current_r = Whole(0) /\ comov_current_nu = Whole(0)
    /\ current_line_id = 0 /\ last_line = 0 /\ close_line = 0
    /\ recently_crossed_boundary = 0
    /\ reabsorbed = 0
    /\ tau_event = Whole(0) /\ nu_line = Whole(0) /\ tau_line = Whole(0)
    /\ d_inner = Whole(0) /\ d_outer = Whole(0) /\ d_line = Whole(0)
    /\ d_electron = Whole(0)
    /\ emission_line_id = 0
    /\ comov_current_energy = Whole(0) /\ inverse_doppler_factor = Whole(0)
    /\ loop_reabsorbed = 0
    /\ activate_level = 0
    /\ event = "IDLE"
    /\ n_interactions = 0

(******************************* the driver ********************************)
\* line 439, i % (no_of_packets / 5) under cdivision=True: a C remainder by zero
\* when no_of_packets < 5, which traps (SIGFPE) or yields a value, as the build has it
ProgressReportTraps ==
    /\ pc = "driver"
    /\ storage.no_of_packets \div 5 = 0
    /\ pc' = "crashed"
    /\ UNCHANGED <<storage, i, outVars, estVars, packetVars, reabsorbed, localVars,
                   event, n_interactions>>

C17_MutantInitialLastLine(found) == IF found = storage.no_of_lines THEN 1 ELSE last_line

\* lines 459-463: the flag the driver sets from the result of its line search
InitialLastLine(found) == IF found = storage.no_of_lines THEN 1 ELSE 0

\* lines 438-475 and 499-527: set up packet i and enter the event loop
StartPacket ==
    /\ pc = "driver"
    /\ \E nu \in PacketNus, mu \in PacketMus, energy \in PacketEnergies, tau \in TauEvents :
          LET r0 == storage.r_inner[0]
              comov == RMul(Whole(nu), DopplerFactor(r0, Whole(mu)))
              found == binary_search(storage.line_list_nu, comov, 0, storage.no_of_lines)
          IN  /\ current_nu' = Whole(nu)
              /\ current_energy' = Whole(energy)
              /\ current_mu' = Whole(mu)
              /\ current_shell_id' = 0
              /\ current_r' = r0
              /\ comov_current_nu' = comov
              /\ current_line_id' = found
              /\ last_line' = InitialLastLine(found)
              /\ tau_event' = Whole(tau)
    /\ recently_crossed_boundary' = 1
    /\ nu_line' = Whole(0) /\ tau_line' = Whole(0)
    /\ d_inner' = Whole(0) /\ d_outer' = Whole(0) /\ d_line' = Whole(0)
    /\ d_electron' = Whole(0)
    /\ emission_line_id' = 0
    /\ comov_current_energy' = Whole(0) /\ inverse_doppler_factor' = Whole(0)
    /\ loop_reabsorbed' = 0
    /\ event' = "START"
    /\ pc' = "loop"
    /\ UNCHANGED <<storage, i, outVars, estVars, close_line, reabsorbed,
                   activate_level, n_interactions>>

\* montecarlo_one_packet ends at line 819 without a return statement: the
\* generated C returns the default value of its int_type_t result
ReturnedValue == 0

\* lines 475-484 and the loop's next i
FinishPacket ==
    /\ pc = "returned"
    /\ reabsorbed' = ReturnedValue
    /\ IF reabsorbed' = 1
       THEN /\ output_nus' = [output_nus EXCEPT ![i] = RNeg(current_nu)]
            /\ output_energies' = [output_energies EXCEPT ![i] = RNeg(current_energy)]
       ELSE IF reabsorbed' = 0
       THEN /\ output_nus' = [output_nus EXCEPT ![i] = current_nu]
            /\ output_energies' = [output_energies EXCEPT ![i] = current_energy]
       ELSE UNCHANGED outVars
    /\ i' = i + 1
    /\ pc' = IF i + 1 < storage.no_of_packets THEN "driver" ELSE "done"
    /\ UNCHANGED <<storage, estVars, packetVars, localVars, event, n_interactions>>

(***************************** the event loop ******************************)
C27_MutantLoopTop ==
    LET nl == IF last_line = 0 THEN ReadNu(current_line_id) ELSE nu_line
    IN  IF close_line = 1
        THEN [ nu_line |-> nl, close_line |-> 0,
               d_inner |-> d_inner, d_outer |-> d_outer,
               d_line |-> Whole(0), d_electron |-> d_electron ]
        ELSE [ nu_line |-> nl, close_line |-> close_line,
               d_inner |->
                   IF recently_crossed_boundary = 1 THEN miss_distance
                   ELSE compute_distance2inner(current_r, current_mu,
                                               storage.r_inner[current_shell_id]),
               d_outer |->
                   compute_distance2outer(current_r, current_mu,
                                          storage.r_outer[current_shell_id]),
               d_line |->
                   IF last_line = 1 THEN Whole(0)
                   ELSE compute_distance2line(current_r, current_mu, current_nu, nl),
               d_electron |->
                   compute_distance2electron(tau_event,
                       storage.inverse_electron_density[current_shell_id]) ]

\* lines 535-577, the top of an iteration: nu_line, close_line and the four
\* candidate distances (on a close-line iteration only d_line is assigned, the
\* other three keep what the previous iteration left in them)
LoopTop ==
    LET nl == IF last_line = 0 THEN ReadNu(current_line_id) ELSE nu_line
    IN  IF close_line = 1
        THEN [ nu_line |-> nl, close_line |-> 0,
               d_inner |-> d_inner, d_outer |-> d_outer,
               d_line |-> Whole(0), d_electron |-> d_electron ]
        ELSE [ nu_line |-> nl, close_line |-> close_line,
               d_inner |->
                   IF recently_crossed_boundary = 1 THEN miss_distance
                   ELSE compute_distance2inner(current_r, current_mu,
                                               storage.r_inner[current_shell_id]),
               d_outer |->
                   compute_distance2outer(current_r, current_mu,
                                          storage.r_outer[current_shell_id]),
               d_line |->
                   IF last_line = 1 THEN miss_distance
                   ELSE compute_distance2line(current_r, current_mu, current_nu, nl),
               d_electron |->
                   compute_distance2electron(tau_event,
                       storage.inverse_electron_density[current_shell_id]) ]

\* the conditions of the if / elif chain, lines 612, 641, 664 and 710
OuterWins(t) ==
    RLt(t.d_outer, t.d_inner) /\ RLt(t.d_outer, t.d_electron) /\ RLt(t.d_outer, t.d_line)

InnerWins(t) ==
    /\ ~OuterWins(t)
    /\ RLt(t.d_inner, t.d_outer) /\ RLt(t.d_inner, t.d_electron) /\ RLt(t.d_inner, t.d_line)

ElectronWins(t) ==
    /\ ~OuterWins(t) /\ ~InnerWins(t)
    /\ RLt(t.d_electron, t.d_outer) /\ RLt(t.d_electron, t.d_inner)
    /\ RLt(t.d_electron, t.d_line)

LineWins(t) ==
    /\ ~OuterWins(t) /\ ~InnerWins(t) /\ ~ElectronWins(t)
    /\ RLt(t.d_line, t.d_outer) /\ RLt(t.d_line, t.d_inner) /\ RLt(t.d_line, t.d_electron)

C22_MutantIsOutermost(shell) == FALSE

\* line 618 negated: the shell an OUTER event escapes from
IsOutermost(shell) == ~(shell < storage.no_of_shells - 1)

\* an INNER event that ends the loop from shell 1 as well
C1_MutantIsInnermost(shell) == shell <= 1

\* line 646 negated: the shell an INNER event is reabsorbed from
IsInnermost(shell) == ~(shell > 0)

\* what every iteration leaves of its top
KeepTop(t) ==
    /\ d_inner' = t.d_inner /\ d_outer' = t.d_outer
    /\ d_line' = t.d_line /\ d_electron' = t.d_electron

\* lines 612-635
Outer ==
    /\ pc = "loop"
    /\ LET t == LoopTop
           m == move_packet(current_r, current_mu, current_nu, current_energy,
                            t.d_outer, js, nubars, current_shell_id)
       IN  /\ OuterWins(t)
           /\ KeepTop(t)
           /\ nu_line' = t.nu_line /\ close_line' = t.close_line
           /\ current_r' = m.r /\ current_mu' = m.mu
           /\ js' = m.js /\ nubars' = m.nubars
           /\ IF ~IsOutermost(current_shell_id)
              THEN /\ current_shell_id' = current_shell_id + 1
                   /\ recently_crossed_boundary' = 1
                   /\ pc' = "loop"
                   /\ UNCHANGED loop_reabsorbed
              ELSE /\ loop_reabsorbed' = 0
                   /\ pc' = "returned"
                   /\ UNCHANGED <<current_shell_id, recently_crossed_boundary>>
    /\ event' = "OUTER"
    /\ UNCHANGED <<storage, i, outVars, current_nu, current_energy, comov_current_nu,
                   current_line_id, last_line, reabsorbed, tau_event, tau_line,
                   emission_line_id, comov_current_energy, inverse_doppler_factor,
                   activate_level, n_interactions>>

\* lines 641-657
Inner ==
    /\ pc = "loop"
    /\ LET t == LoopTop
           m == move_packet(current_r, current_mu, current_nu, current_energy,
                            t.d_inner, js, nubars, current_shell_id)
       IN  /\ InnerWins(t)
           /\ KeepTop(t)
           /\ nu_line' = t.nu_line /\ close_line' = t.close_line
           /\ current_r' = m.r /\ current_mu' = m.mu
           /\ js' = m.js /\ nubars' = m.nubars
           /\ IF ~IsInnermost(current_shell_id)
              THEN /\ current_shell_id' = current_shell_id - 1
                   /\ recently_crossed_boundary' = -1
                   /\ pc' = "loop"
                   /\ UNCHANGED loop_reabsorbed
              ELSE /\ loop_reabsorbed' = 1
                   /\ pc' = "returned"
                   /\ UNCHANGED <<current_shell_id, recently_crossed_boundary>>
    /\ event' = "INNER"
    /\ UNCHANGED <<storage, i, outVars, current_nu, current_energy, comov_current_nu,
                   current_line_id, last_line, reabsorbed, tau_event, tau_line,
                   emission_line_id, comov_current_energy, inverse_doppler_factor,
                   activate_level, n_interactions>>

\* lines 664-706
Electron ==
    /\ pc = "loop"
    /\ n_interactions < MaxInteractions
    /\ LET t == LoopTop
           m == move_packet(current_r, current_mu, current_nu, current_energy,
                            t.d_electron, js, nubars, current_shell_id)
           comov_nu == RMul(current_nu, m.doppler_factor)
           comov_energy == RMul(current_energy, m.doppler_factor)
       IN  /\ ElectronWins(t)
           /\ KeepTop(t)
           /\ nu_line' = t.nu_line /\ close_line' = t.close_line
           /\ current_r' = m.r
           /\ js' = m.js /\ nubars' = m.nubars
           /\ \E mu \in ScatterMus, tau \in TauEvents :
                 LET idf == RInv(DopplerFactor(m.r, Whole(mu)))
                 IN  /\ current_mu' = Whole(mu)
                     /\ inverse_doppler_factor' = idf
                     /\ current_nu' = RMul(comov_nu, idf)
                     /\ current_energy' = RMul(comov_energy, idf)
                     /\ tau_event' = Whole(tau)
    /\ recently_crossed_boundary' = 0
    /\ event' = "ELECTRON"
    /\ n_interactions' = n_interactions + 1
    /\ pc' = "loop"
    /\ UNCHANGED <<storage, i, outVars, current_shell_id, comov_current_nu,
                   current_line_id, last_line, reabsorbed, tau_line,
                   emission_line_id, comov_current_energy, loop_reabsorbed,
                   activate_level>>

C16_MutantCloseLineAfter(k, nl) == 0

\* line 811, with nl the nu_line and k the cursor the handler ends with
CloseLineAfter(k, nl) ==
    IF RLt(RDiv(RAbs(RSub(ReadNu(k), nl)), nl), close_line_tolerance) THEN 1 ELSE 0

\* lines 778-792 and 810-812: the packet re-emitted in line emit, with last the
\* last_line and cl the close_line the handler has at that point
LineEmission(emit, cce, idf, last, cl) ==
    /\ emission_line_id' = emit
    /\ current_nu' = RMul(ReadNu(emit), idf)
    /\ nu_line' = ReadNu(emit)
    /\ current_line_id' = emit + 1
    /\ current_energy' = RMul(cce, idf)
    /\ \E tau \in TauEvents : tau_event' = Whole(tau)
    /\ recently_crossed_boundary' = 0
    /\ close_line' = IF last = 0 THEN CloseLineAfter(emit + 1, ReadNu(emit)) ELSE cl

C23_MutantPassedTauEvent(tau, tl, tau_electron) == RSub(tau, RAdd(tl, tau_electron))

\* line 796: what a line passed without interaction leaves of tau_event
PassedTauEvent(tau, tl, tau_electron) == RSub(tau, tl)

\* lines 710-812; with line_interaction_id >= 1 up to the call of macro_atom
Line ==
    /\ pc = "loop"
    /\ LET t == LoopTop
           tl == ReadTau(current_shell_id * storage.line_lists_tau_sobolevs_nd
                         + current_line_id)
           tau_electron == RMul(RMul(Whole(sigma_thomson),
                                     storage.electron_density[current_shell_id]),
                                t.d_line)
           tau_combined == RAdd(tl, tau_electron)
           advanced == current_line_id + 1
           cursor == IF advanced >= storage.no_of_lines
                     THEN storage.no_of_lines ELSE advanced
           last == IF advanced >= storage.no_of_lines THEN 1 ELSE last_line
       IN  /\ LineWins(t)
           /\ KeepTop(t)
           /\ tau_line' = tl
           /\ last_line' = last
           /\ IF RLt(tau_event, tau_combined)
              THEN LET m == move_packet(current_r, current_mu, current_nu,
                                        current_energy, t.d_line, js, nubars,
                                        current_shell_id)
                       cce == RMul(current_energy, m.doppler_factor)
                   IN  /\ n_interactions < MaxInteractions
                       /\ n_interactions' = n_interactions + 1
                       /\ current_r' = m.r
                       /\ js' = m.js /\ nubars' = m.nubars
                       /\ comov_current_energy' = cce
                       /\ \E mu \in ScatterMus :
                             LET idf == RInv(DopplerFactor(m.r, Whole(mu)))
                             IN  /\ current_mu' = Whole(mu)
                                 /\ inverse_doppler_factor' = idf
                                 /\ IF storage.line_interaction_id = 0
                                    THEN /\ LineEmission(cursor, cce, idf, last,
                                                         t.close_line)
                                         /\ event' = "LINE_INTERACTION"
                                         /\ pc' = "loop"
                                         /\ UNCHANGED activate_level
                                    ELSE /\ activate_level' =
                                                ReadInt(storage.line2macro_level_upper,
                                                        cursor)
                                         /\ current_line_id' = cursor
                                         /\ nu_line' = t.nu_line
                                         /\ close_line' = t.close_line
                                         /\ event' = "LINE_ACTIVATION"
                                         /\ pc' = "macro_atom"
                                         /\ UNCHANGED <<current_nu, current_energy,
                                                        tau_event, emission_line_id,
                                                        recently_crossed_boundary>>
              ELSE /\ tau_event' = PassedTauEvent(tau_event, tl, tau_electron)
                   /\ nu_line' = t.nu_line
                   /\ current_line_id' = cursor
                   /\ close_line' = IF last = 0 THEN CloseLineAfter(cursor, t.nu_line)
                                    ELSE t.close_line
                   /\ event' = "LINE_PASSED"
                   /\ pc' = "loop"
                   /\ UNCHANGED <<current_r, current_mu, current_nu, current_energy,
                                  estVars, emission_line_id, comov_current_energy,
                                  inverse_doppler_factor, activate_level,
                                  recently_crossed_boundary, n_interactions>>
    /\ UNCHANGED <<storage, i, outVars, current_shell_id, comov_current_nu,
                   reabsorbed, loop_reabsorbed>>

\* what macro_atom's inner loop finds when it cannot stop inside mapped memory
Fault == -1000

\* the inner loop of macro_atom, lines 248-256, from transition k with the sum p:
\* the transition whose cumulative probability first exceeds event_random
RECURSIVE C15_MutantSelectTransition(_, _, _)
C15_MutantSelectTransition(k, p, event_random) ==
    LET at == current_shell_id * storage.transition_probabilities_nd + k
        sum == RAdd(p, ReadProbability(at))
    IN  IF RLe(event_random, sum) THEN k
        ELSE IF at >= Cardinality(DOMAIN storage.transition_probabilities.data)
        THEN Fault
        ELSE C15_MutantSelectTransition(k + 1, sum, event_random)

RECURSIVE C31_MutantSelectTransition(_, _, _)
C31_MutantSelectTransition(k, p, event_random) ==
    LET at == current_shell_id * storage.transition_probabilities_nd + k
    IN  IF RLt(event_random, ReadProbability(at)) THEN k
        ELSE IF at >= Cardinality(DOMAIN storage.transition_probabilities.data)
        THEN Fault
        ELSE C31_MutantSelectTransition(k + 1, p, event_random)

RECURSIVE SelectTransition(_, _, _)
SelectTransition(k, p, event_random) ==
    LET at == current_shell_id * storage.transition_probabilities_nd + k
        sum == RAdd(p, ReadProbability(at))
    IN  IF RLt(event_random, sum) THEN k
        ELSE IF at >= Cardinality(DOMAIN storage.transition_probabilities.data)
        THEN Fault
        ELSE SelectTransition(k + 1, sum, event_random)

\* one turn of macro_atom's outer loop, lines 244-262, and on its return the rest
\* of the LINE handler, lines 778-812
MacroAtomStep ==
    /\ pc = "macro_atom"
    /\ \E event_random \in EventRandoms :
          LET first == ReadInt(storage.macro_block_references, activate_level)
              k == SelectTransition(first, Whole(0), event_random)
              emit == ReadInt(storage.transition_type, k)
          IN  IF k = Fault \/ (emit = -1 /\ storage.transition_line_id.null)
              THEN /\ pc' = "crashed"
                   /\ UNCHANGED <<packetVars, localVars, event>>
              ELSE IF emit = -1
              THEN /\ LineEmission(ReadInt(storage.transition_line_id, k),
                                   comov_current_energy, inverse_doppler_factor,
                                   last_line, close_line)
                   /\ activate_level' = ReadInt(storage.destination_level_id, k)
                   /\ event' = "LINE_INTERACTION"
                   /\ pc' = "loop"
                   /\ UNCHANGED <<current_mu, current_shell_id, current_r,
                                  comov_current_nu, last_line, tau_line, d_inner,
                                  d_outer, d_line, d_electron, comov_current_energy,
                                  inverse_doppler_factor, loop_reabsorbed>>
              ELSE /\ activate_level' = ReadInt(storage.destination_level_id, k)
                   /\ event' = "MACRO_JUMP"
                   /\ pc' = "macro_atom"
                   /\ UNCHANGED <<packetVars, tau_event, nu_line, tau_line, d_inner,
                                  d_outer, d_line, d_electron, emission_line_id,
                                  comov_current_energy, inverse_doppler_factor,
                                  loop_reabsorbed>>
    /\ UNCHANGED <<storage, i, outVars, estVars, reabsorbed, n_interactions>>

\* no condition of the chain holds: the iteration ends having run only its top.
\* event tells an iteration that follows another of the kind from the first, so
\* that a loop turning without effect is a cycle of steps and not a halt
NoEvent ==
    /\ pc = "loop"
    /\ LET t == LoopTop
       IN  /\ ~OuterWins(t) /\ ~InnerWins(t) /\ ~ElectronWins(t) /\ ~LineWins(t)
           /\ KeepTop(t)
           /\ nu_line' = t.nu_line /\ close_line' = t.close_line
    /\ event' = IF event = "NOEVENT" THEN "NOEVENT_AGAIN" ELSE "NOEVENT"
    /\ pc' = "loop"
    /\ UNCHANGED <<storage, i, outVars, estVars, current_nu, current_energy,
                   current_mu, current_shell_id, current_r, comov_current_nu,
                   current_line_id, last_line, recently_crossed_boundary,
                   reabsorbed, tau_event, tau_line, emission_line_id,
                   comov_current_energy, inverse_doppler_factor,
                   loop_reabsorbed, activate_level, n_interactions>>

Next ==
    \/ ProgressReportTraps
    \/ StartPacket
    \/ Outer
    \/ Inner
    \/ Electron
    \/ Line
    \/ MacroAtomStep
    \/ NoEvent
    \/ FinishPacket

Spec == Init /\ [][Next]_vars

TypeOK ==
    /\ pc \in {"driver", "loop", "macro_atom", "returned", "done", "crashed"}
    /\ last_line \in {0, 1} /\ close_line \in {0, 1}


(******************************** properties *******************************)
\* the states in which a packet's event loop is running or has just ended
InEventLoop == pc \in {"loop", "macro_atom", "returned"}

LineEvents == {"LINE_PASSED", "LINE_INTERACTION", "LINE_ACTIVATION"}

SmallestNotAbove(nu, nu_insert, L) ==
    LET hits == { k \in 0 .. L - 1 : RLe(nu[k], nu_insert) }
    IN  IF hits = {} THEN L ELSE CHOOSE k \in hits : \A h \in hits : k <= h

\* C3: binary_search(line_list_nu, nu_insert, 0, L) returns the smallest index i
\* with line_list_nu[i] <= nu_insert, and L when there is none
C3_BinarySearch ==
    event = "START" =>
        current_line_id =
            SmallestNotAbove(storage.line_list_nu, comov_current_nu, storage.no_of_lines)

\* C4: a LINE event of a packet in shell s with cursor l in [0, L) uses
\* tau_sobolev[s, l]
C4_TauIndex ==
    [][(pc = "loop" /\ event' \in LineEvents
        /\ current_line_id \in 0 .. storage.no_of_lines - 1)
       => tau_line' = TauEntry(current_shell_id, current_line_id)]_vars

\* C5: throughout the event loop last_line = 1 exactly when the cursor equals L
C5_LastLineFlag ==
    InEventLoop => (last_line = 1 <=> current_line_id = storage.no_of_lines)

\* C6: throughout the event loop the cursor lies in 0 .. L
C6_CursorRange ==
    InEventLoop => current_line_id \in 0 .. storage.no_of_lines

\* C7: throughout the event loop r_inner[s] <= r <= r_outer[s] for the packet's shell s
C7_RadiusInShell ==
    InEventLoop =>
        /\ RLe(storage.r_inner[current_shell_id], current_r)
        /\ RLe(current_r, storage.r_outer[current_shell_id])

\* C8: every iteration of the event loop moves the packet by a distance d > 0 (which
\* adds to the shell's js) or strictly increases the cursor
C8_Progress ==
    [][pc = "loop" => (js' # js \/ current_line_id' > current_line_id)]_vars

\* no shell has electrons to scatter on
NoScattering ==
    \A s \in 0 .. storage.no_of_shells - 1 : storage.electron_density[s] = Whole(0)

\* everything an iteration of the event loop reads and writes
LoopState == <<pc, packetVars, estVars, localVars>>

\* C9: once the line list is exhausted (last_line = 1) the loop of a packet that
\* cannot scatter never cycles forever: no iteration, which then draws nothing at
\* random, hands the next one the very state it started from
C9_NeverCycles ==
    [][(pc = "loop" /\ last_line = 1 /\ NoScattering) => LoopState' # LoopState]_vars

\* one shell, no lines, no electrons
SingleEmptyShell ==
    storage.no_of_shells = 1 /\ storage.no_of_lines = 0 /\ NoScattering

\* C10: with one shell, no lines and no electrons a packet reads no line, runs no
\* LINE or ELECTRON handler and leaves by one OUTER event with reabsorbed = 0
C10_SingleEmptyShell ==
    SingleEmptyShell =>
        /\ InEventLoop => last_line = 1
        /\ event \notin LineEvents \cup {"ELECTRON"}
        /\ pc = "returned" => (event = "OUTER" /\ loop_reabsorbed = 0)
        /\ pc = "done" => (RLt(Whole(0), output_nus[0])
                           /\ RLt(Whole(0), output_energies[0]))

\* one shell without electrons whose line list is the single line nu0, in SCATTER mode
OneLineShell(nu0) ==
    /\ storage.no_of_shells = 1 /\ storage.no_of_lines = 1
    /\ storage.line_interaction_id = 0 /\ NoScattering
    /\ storage.line_list_nu[0] = Whole(nu0)

\* C11: in a single shell with one optically thick line (tau_line above the drawn
\* tau_event), SCATTER mode and no electrons, a packet that starts with mu = 1 and a
\* comoving frequency just blueward of the line (nu = 24, comoving 20, line 18 at
\* distance 1 of the 2 to the outer boundary) has a LINE interaction as its first event
C11_ThickLineInteracts ==
    [][(OneLineShell(18) /\ pc = "loop" /\ event = "START"
        /\ current_mu = Whole(1) /\ comov_current_nu = Whole(20)
        /\ RLt(tau_event, TauEntry(0, 0)))
       => event' = "LINE_INTERACTION"]_vars

\* the states in which the driver has taken up the results of the packets so far
BetweenPackets == pc \in {"driver", "done"}

\* a packet that was started inwards and never interacted: its frequency is still
\* below the comoving frequency it was started with
StartedInwards == RLt(current_nu, comov_current_nu)

\* C12: with two shells and no opacity a packet started at r_inner[0] with mu = -1
\* is reabsorbed (negative output) and one started with mu = +1 escapes (positive
\* output)
C12_TwoShellsNoOpacity ==
    (/\ BetweenPackets /\ i > 0 /\ event \in {"OUTER", "INNER"}
     /\ storage.no_of_shells = 2 /\ storage.no_of_lines = 1 /\ NoScattering
     /\ n_interactions = 0) =>
        IF StartedInwards
        THEN loop_reabsorbed = 1 /\ RLt(output_nus[i - 1], Whole(0))
        ELSE loop_reabsorbed = 0 /\ RLt(Whole(0), output_nus[i - 1])

\* C13: the line that interacts is the line under the cursor before the LINE handler
\* advances it: in SCATTER mode the packet is re-emitted in that line, otherwise the
\* macro atom is activated at line2macro_level_upper of that line
C13_AbsorbingLine ==
    [][(pc = "loop" /\ current_line_id \in 0 .. storage.no_of_lines - 1
        /\ event' \in {"LINE_INTERACTION", "LINE_ACTIVATION"})
       => IF storage.line_interaction_id = 0
          THEN /\ emission_line_id' = current_line_id
               /\ nu_line' = storage.line_list_nu[current_line_id]
          ELSE activate_level' = storage.line2macro_level_upper.data[current_line_id]]_vars

\* the macro atom is running in MACRO mode at a level of the atom, in a shell where
\* the level's emission transition has probability 1
SureEmission ==
    /\ pc = "macro_atom" /\ storage.line_interaction_id = 2
    /\ activate_level \in 0 .. storage.no_of_lines - 1
    /\ TransitionProbability(current_shell_id, 2 * activate_level + 1) = Whole(1)

\* C14: in MACRO mode, when the level activated by a line interaction has an emission
\* on line B as its only possible transition, the macro atom as the kernel calls it
\* returns and the interaction yields emission_line_id = B
C14_KernelMacroAtom ==
    [][SureEmission =>
          /\ pc' = "loop"
          /\ emission_line_id' =
                 AtomData(storage.no_of_lines, 2).lines_idx[2 * activate_level + 1]]_vars

(************************* macro_atom by itself ***************************)
\* the arguments macro_atom is written for, lines 233-240: the probabilities with the
\* row length of a shell, the transition types, the destination levels and the
\* emission lines each in its own table
ValidStorage(model, beyond) ==
    [StorageModel(model, beyond) EXCEPT
        !.transition_probabilities_nd = Cardinality(DOMAIN model.atom_data.transition_type),
        !.transition_type = Data(model.atom_data.transition_type),
        !.destination_level_id = Data(model.atom_data.destination_level_idx),
        !.transition_line_id = Data(model.atom_data.lines_idx)]

ValidSnapshots ==
    { ValidStorage(model, beyond) :
        model \in {m \in Models(1 .. MaxPackets) : m.line_interaction_id >= 1},
        beyond \in Beyond }

\* a call of macro_atom with a level of the atom and a shell of the model, made by
\* a LINE handler that has absorbed a packet of comoving energy 1
MacroInit ==
    /\ storage \in ValidSnapshots
    /\ pc = "macro_atom"
    /\ i = 0
    /\ output_nus = [k \in 0 .. storage.no_of_packets - 1 |-> Whole(0)]
    /\ output_energies = [k \in 0 .. storage.no_of_packets - 1 |-> Whole(0)]
    /\ js = [s \in 0 .. storage.no_of_shells - 1 |-> Whole(0)]
    /\ nubars = [s \in 0 .. storage.no_of_shells - 1 |-> Whole(0)]
    /\ current_nu = Whole(0) /\ current_energy = Whole(0) /\ current_mu = Whole(1)
    /\ current_shell_id \in 0 .. storage.no_of_shells - 1
    /\ current_r = storage.r_inner[current_shell_id]
    /\ comov_current_nu = Whole(0)
    /\ current_line_id = 0 /\ last_line = 0 /\ close_line = 0
    /\ recently_crossed_boundary = 0
    /\ reabsorbed = 0
    /\ tau_event = Whole(0) /\ nu_line = Whole(0) /\ tau_line = Whole(0)
    /\ d_inner = Whole(0) /\ d_outer = Whole(0) /\ d_line = Whole(0)
    /\ d_electron = Whole(0)
    /\ emission_line_id = 0
    /\ comov_current_energy = Whole(1) /\ inverse_doppler_factor = Whole(1)
    /\ loop_reabsorbed = 0
    /\ activate_level \in 0 .. storage.no_of_lines - 1
    /\ event = "LINE_ACTIVATION"
    /\ n_interactions = 1

MacroNext == MacroAtomStep

MacroSpec == MacroInit /\ [][MacroNext]_vars

\* the transitions of the active level's block, lines 246 and 256
Block(level) ==
    ReadInt(storage.macro_block_references, level) ..
        ReadInt(storage.macro_block_references, level + 1) - 1

\* transition t can be selected in the current shell: its probability is not zero
Possible(t) ==
    RLt(Whole(0), ReadProbability(current_shell_id * storage.transition_probabilities_nd + t))

RECURSIVE Cumulative(_, _)
Cumulative(first, t) ==
    IF t < first THEN Whole(0)
    ELSE RAdd(Cumulative(first, t - 1),
              ReadProbability(current_shell_id * storage.transition_probabilities_nd + t))

\* t is the first transition of the block of level whose cumulative probability
\* strictly exceeds event_random
FirstExceeding(level, t, event_random) ==
    LET first == ReadInt(storage.macro_block_references, level)
    IN  /\ t \in Block(level)
        /\ RLt(event_random, Cumulative(first, t))
        /\ \A u \in Block(level) : u < t => ~RLt(event_random, Cumulative(first, u))

\* C31: in a turn of macro_atom every draw has a first transition of the active
\* level's block whose cumulative probability strictly exceeds it, and the turn acts
\* on such a transition t for one of the draws: t has a probability above zero in the
\* current shell, and the emission decision (transition_type[t]), the destination
\* level (destination_level_id[t]) and the returned line (transition_line_id[t])
\* are all read at that same index t
C31_FirstExceedingSelected ==
    [][pc = "macro_atom" =>
          /\ \A event_random \in EventRandoms :
                \E t \in Block(activate_level) :
                    FirstExceeding(activate_level, t, event_random)
          /\ \E event_random \in EventRandoms :
                \E t \in Block(activate_level) :
                    /\ FirstExceeding(activate_level, t, event_random)
                    /\ Possible(t)
                    /\ activate_level' = storage.destination_level_id.data[t]
                    /\ IF storage.transition_type.data[t] = -1
                       THEN /\ pc' = "loop"
                            /\ event' = "LINE_INTERACTION"
                            /\ emission_line_id' = storage.transition_line_id.data[t]
                       ELSE /\ pc' = "macro_atom"
                            /\ event' = "MACRO_JUMP"
                            /\ emission_line_id' = emission_line_id]_vars

\* in the second shell, where the first transition of every block has probability
\* zero, macro_atom has passed over the first transition of a level of a three-line
\* MACRO atom and returned the emission of the second
C31_ZeroProbabilityPassed ==
    /\ pc = "loop" /\ event = "LINE_INTERACTION"
    /\ storage.line_interaction_id = 2 /\ storage.no_of_lines = 3
    /\ current_shell_id = 1
    /\ ~Possible(ReadInt(storage.macro_block_references, activate_level))
    /\ Possible(ReadInt(storage.macro_block_references, activate_level) + 1)
    /\ emission_line_id = activate_level

(*********************** runs of close lines *******************************)
\* a line list whose lines 1, 2 and 3 lie within close_line_tolerance of their
\* neighbours, after a first line that does not
CloseLineList == [k \in 0 .. 3 |-> <<30, 18, 17, 16>>[k + 1]]

CloseSnapshots ==
    { StorageModel(Model(1, S, CloseLineList, mode, ne), beyond) :
        S \in 1 .. MaxShells, mode \in {0, 1, 2}, ne \in {0, 1}, beyond \in Beyond }

CloseInit ==
    /\ storage \in CloseSnapshots
    /\ pc = "driver"
    /\ i = 0
    /\ output_nus = [k \in 0 .. storage.no_of_packets - 1 |-> Whole(0)]
    /\ output_energies = [k \in 0 .. storage.no_of_packets - 1 |-> Whole(0)]
    /\ js = [s \in 0 .. storage.no_of_shells - 1 |-> Whole(0)]
    /\ nubars = [s \in 0 .. storage.no_of_shells - 1 |-> Whole(0)]
    /\ current_nu = Whole(0) /\ current_energy = Whole(0) /\ current_mu = Whole(0)
    /\ current_shell_id = 0 /\ current_r = Whole(0) /\ comov_current_nu = Whole(0)
    /\ current_line_id = 0 /\ last_line = 0 /\ close_line = 0
    /\ recently_crossed_boundary = 0
    /\ reabsorbed = 0
    /\ tau_event = Whole(0) /\ nu_line = Whole(0) /\ tau_line = Whole(0)
    /\ d_inner = Whole(0) /\ d_outer = Whole(0) /\ d_line = Whole(0)
    /\ d_electron = Whole(0)
    /\ emission_line_id = 0
    /\ comov_current_energy = Whole(0) /\ inverse_doppler_factor = Whole(0)
    /\ loop_reabsorbed = 0
    /\ activate_level = 0
    /\ event = "IDLE"
    /\ n_interactions = 0

CloseSpec == CloseInit /\ [][Next]_vars

\* a LINE event has ended in the event loop with a line left under the cursor
LineEventEnded(e, at, cursor, last) ==
    /\ at = "loop" /\ e \in {"LINE_PASSED", "LINE_INTERACTION"}
    /\ last = 0 /\ cursor \in DOMAIN storage.line_list_nu

\* the line under the cursor lies within the close-line tolerance of nu_line
NextLineClose(cursor, nl) ==
    RLt(RDiv(RAbs(RSub(storage.line_list_nu[cursor], nl)), nl), close_line_tolerance)

\* C16 as stated: a LINE event that ends with last_line = 0 and the next line close
\* to nu_line sets close_line; the next iteration takes the LINE branch again with
\* d_line = 0 and leaves r and mu unchanged, whether or not an interaction occurs
C16_CloseLineKeepsDirection ==
    [][/\ LineEventEnded(event', pc', current_line_id', last_line')
          => (close_line' = 1 <=> NextLineClose(current_line_id', nu_line'))
       /\ (pc = "loop" /\ close_line = 1)
          => /\ event' \in LineEvents /\ d_line' = Whole(0)
             /\ current_r' = current_r /\ current_mu' = current_mu]_vars

\* C16, amended: as above, but mu is left unchanged only when the adjacent line is
\* passed without interaction; r is unchanged in either case, and the adjacent line
\* is the one whose nu the iteration reads
C16_CloseLineRun ==
    [][/\ LineEventEnded(event', pc', current_line_id', last_line')
          => (close_line' = 1 <=> NextLineClose(current_line_id', nu_line'))
       /\ (pc = "loop" /\ close_line = 1)
          => /\ event' \in LineEvents /\ d_line' = Whole(0)
             /\ current_r' = current_r
             /\ event' = "LINE_PASSED"
                => current_mu' = current_mu /\ nu_line' = ReadNu(current_line_id)]_vars

\* a packet in one shell without electrons has passed the three close lines 18, 17
\* and 16 one after the other, the second and the third at d_line = 0
C16_ThreeCloseLines ==
    /\ pc = "loop" /\ event = "LINE_PASSED" /\ d_line = Whole(0)
    /\ storage.no_of_shells = 1 /\ NoScattering /\ n_interactions = 0
    /\ current_line_id = 4 /\ tau_event = Whole(22)

(************************* one packet after another ************************)
\* runs of two packets through one shell with the close lines
TwoPacketSnapshots ==
    { StorageModel(Model(2, 1, CloseLineList, mode, ne), beyond) :
        mode \in {0, 2}, ne \in {0, 1}, beyond \in Beyond }

TwoPacketInit ==
    /\ storage \in TwoPacketSnapshots
    /\ pc = "driver"
    /\ i = 0
    /\ output_nus = [k \in 0 .. storage.no_of_packets - 1 |-> Whole(0)]
    /\ output_energies = [k \in 0 .. storage.no_of_packets - 1 |-> Whole(0)]
    /\ js = [s \in 0 .. storage.no_of_shells - 1 |-> Whole(0)]
    /\ nubars = [s \in 0 .. storage.no_of_shells - 1 |-> Whole(0)]
    /\ current_nu = Whole(0) /\ current_energy = Whole(0) /\ current_mu = Whole(0)
    /\ current_shell_id = 0 /\ current_r = Whole(0) /\ comov_current_nu = Whole(0)
    /\ current_line_id = 0 /\ last_line = 0 /\ close_line = 0
    /\ recently_crossed_boundary = 0
    /\ reabsorbed = 0
    /\ tau_event = Whole(0) /\ nu_line = Whole(0) /\ tau_line = Whole(0)
    /\ d_inner = Whole(0) /\ d_outer = Whole(0) /\ d_line = Whole(0)
    /\ d_electron = Whole(0)
    /\ emission_line_id = 0
    /\ comov_current_energy = Whole(0) /\ inverse_doppler_factor = Whole(0)
    /\ loop_reabsorbed = 0
    /\ activate_level = 0
    /\ event = "IDLE"
    /\ n_interactions = 0

TwoPacketSpec == TwoPacketInit /\ [][Next]_vars

\* C17: whatever the earlier packet's event loop did, a packet enters its event loop
\* with r = r_inner[0], s = 0, recently_crossed_boundary = +1, close_line = 0 and
\* last_line set by its own line search alone; and close_line is 0 whenever an event
\* loop has terminated
C17_PacketsIndependent ==
    /\ event = "START" =>
          /\ current_r = storage.r_inner[0] /\ current_shell_id = 0
          /\ recently_crossed_boundary = 1 /\ close_line = 0
          /\ current_line_id = binary_search(storage.line_list_nu, comov_current_nu,
                                             0, storage.no_of_lines)
          /\ last_line = IF current_line_id = storage.no_of_lines THEN 1 ELSE 0
    /\ (pc = "returned" \/ BetweenPackets) => close_line = 0

\* the second packet enters its event loop with lines ahead of it, after a first
\* packet that scattered or interacted on its way
C17_SecondPacketStarts ==
    /\ event = "START" /\ i = 1 /\ last_line = 0 /\ n_interactions >= 1
    /\ current_line_id < storage.no_of_lines

\* C18: tau_event is strictly positive at the start of every iteration of the
\* event loop
C18_TauEventPositive == pc = "loop" => RLt(Whole(0), tau_event)

\* the top of an iteration computes d_line from the line under the cursor
ComputesDLine ==
    /\ pc = "loop" /\ last_line = 0 /\ close_line = 0
    /\ current_line_id \in DOMAIN storage.line_list_nu

\* C19: whenever the loop computes d_line (last_line = 0, close_line = 0) the
\* comoving frequency of the packet where it stands is at least the rest frequency
\* of the line under the cursor, and the d_line computed is not negative
C19_LineAhead ==
    ComputesDLine =>
        /\ RLe(storage.line_list_nu[current_line_id],
               RMul(current_nu, DopplerFactor(current_r, current_mu)))
        /\ RLe(Whole(0), LoopTop.d_line)

\* C20: every iteration of the event loop dispatches one of the four handlers
\* OUTER, INNER, ELECTRON and LINE, whatever the candidate distances are, equal
\* ones included
C20_OneHandlerRuns ==
    [][pc = "loop" => event' \in {"OUTER", "INNER", "ELECTRON"} \cup LineEvents]_vars

\* C21: in every state of the event loop with recently_crossed_boundary = +1 the
\* inner-boundary distance the iteration skips, compute_distance2inner(r, mu,
\* r_inner[s]), is itself the miss distance
C21_SkippedInnerIsMiss ==
    (pc = "loop" /\ recently_crossed_boundary = 1) =>
        compute_distance2inner(current_r, current_mu,
                               storage.r_inner[current_shell_id]) = miss_distance

\* C22: the shell id stays in [0, S) and changes only at boundary events, by one:
\* an OUTER event below the outermost shell sets s to s + 1 and the flag to +1, an
\* INNER event above the innermost shell sets s to s - 1 and the flag to -1; no
\* other event of the loop changes s, recently_crossed_boundary stays in
\* {-1, 0, +1} and becomes 0 only by an electron scatter or a line interaction
C22_ShellSteps ==
    [][/\ current_shell_id \in 0 .. storage.no_of_shells - 1
       /\ current_shell_id' \in 0 .. storage.no_of_shells - 1
       /\ recently_crossed_boundary' \in {-1, 0, 1}
       /\ pc \in {"loop", "macro_atom"} =>
             /\ (event' = "OUTER" /\ current_shell_id < storage.no_of_shells - 1)
                => (current_shell_id' = current_shell_id + 1
                    /\ recently_crossed_boundary' = 1)
             /\ (event' = "INNER" /\ current_shell_id > 0)
                => (current_shell_id' = current_shell_id - 1
                    /\ recently_crossed_boundary' = -1)
             /\ current_shell_id' # current_shell_id => event' \in {"OUTER", "INNER"}
             /\ (recently_crossed_boundary' = 0 /\ recently_crossed_boundary # 0)
                => event' \in {"ELECTRON", "LINE_INTERACTION"}]_vars

\* a packet turned back in the second shell has crossed into the first again
C22_CrossedInwards ==
    /\ pc = "loop" /\ event = "INNER" /\ storage.no_of_shells = 2
    /\ current_shell_id = 0 /\ recently_crossed_boundary = -1

\* C23: a LINE event without interaction reduces tau_event by tau_line alone,
\* advances the cursor by one line, clamped to L, and leaves r, mu, nu, E, the
\* shell id, recently_crossed_boundary and both estimator arrays unchanged
C23_LinePassedFrame ==
    [][(pc = "loop" /\ event' = "LINE_PASSED") =>
          /\ tau_event' = RSub(tau_event, tau_line')
          /\ current_line_id' = IF current_line_id + 1 >= storage.no_of_lines
                                THEN storage.no_of_lines ELSE current_line_id + 1
          /\ last_line' \in {0, 1} /\ close_line' \in {0, 1}
          /\ UNCHANGED <<current_r, current_mu, current_nu, current_energy,
                         current_shell_id, recently_crossed_boundary, js, nubars>>]_vars

\* a packet among electrons has passed a line lying ahead of it, with lines left
C23_PassedAmongElectrons ==
    /\ pc = "loop" /\ event = "LINE_PASSED"
    /\ storage.electron_density[current_shell_id] = Whole(1)
    /\ RLt(Whole(0), d_line) /\ current_line_id < storage.no_of_lines

\* C24: an ELECTRON event leaves the line cursor, last_line, close_line and the
\* shell id unchanged; it moves the packet by d_electron along its path, rescales nu
\* and E from the comoving frame before the move to the new direction, and sets
\* recently_crossed_boundary to 0
C24_ElectronFrame ==
    [][(pc = "loop" /\ event' = "ELECTRON") =>
          /\ UNCHANGED <<current_line_id, last_line, close_line, current_shell_id>>
          /\ RLt(Whole(0), d_electron')
             => current_r' = RAbs(RAdd(current_r, RMul(current_mu, d_electron')))
          /\ RMul(current_nu', DopplerFactor(current_r', current_mu'))
                 = RMul(current_nu, DopplerFactor(current_r, current_mu))
          /\ RMul(current_energy', DopplerFactor(current_r', current_mu'))
                 = RMul(current_energy, DopplerFactor(current_r, current_mu))
          /\ recently_crossed_boundary' = 0]_vars

\* a packet with lines ahead of it has scattered off an electron and turned
C24_Scattered ==
    /\ pc = "loop" /\ event = "ELECTRON" /\ last_line = 0
    /\ current_line_id < storage.no_of_lines
    /\ current_mu = Whole(-1) /\ RLt(storage.r_inner[0], current_r)

\* distances that are zero or negative
NoDistances == {Whole(0), Rat(-1, 2), Whole(-4)}

\* C25: move_packet called with a distance d = 0 or d < 0 returns the current
\* Doppler factor and changes none of r, mu, J and nubar; so an event selected with
\* a zero or negative distance leaves the radius and both estimators as they were
C25_NoMoveBackwards ==
    [][pc = "loop" =>
          /\ \A d \in NoDistances :
                move_packet(current_r, current_mu, current_nu, current_energy, d,
                            js, nubars, current_shell_id)
                = [r |-> current_r, mu |-> current_mu, js |-> js, nubars |-> nubars,
                   doppler_factor |-> DopplerFactor(current_r, current_mu)]
          /\ \/ event' = "OUTER" /\ RLe(d_outer', Whole(0))
             \/ event' = "INNER" /\ RLe(d_inner', Whole(0))
             \/ event' = "ELECTRON" /\ RLe(d_electron', Whole(0))
             \/ event' \in {"LINE_INTERACTION", "LINE_ACTIVATION"}
                /\ RLe(d_line', Whole(0))
             => UNCHANGED <<current_r, js, nubars>>]_vars

\* a line interaction has been selected with a negative d_line
C25_InteractedBehind ==
    /\ pc = "loop" /\ event = "LINE_INTERACTION" /\ RLt(d_line, Whole(0))

\* the step adds the contribution of a move of distance d, made from the state
\* before the step, to J and nubar of the shell the packet is in before the step
Contributed(d) ==
    LET comov_energy == RMul(current_energy, DopplerFactor(current_r, current_mu))
        comov_nu == RMul(current_nu, DopplerFactor(current_r, current_mu))
    IN  /\ js' = [js EXCEPT ![current_shell_id] = RAdd(@, RMul(comov_energy, d))]
        /\ nubars' = [nubars EXCEPT ![current_shell_id] =
                         RAdd(@, RMul(RMul(comov_energy, d), comov_nu))]

\* the step is an event of the loop selected with the distance d > 0
MovedBy(e, d) == pc = "loop" /\ event' \in e /\ RLt(Whole(0), d)

\* C26: every move of a distance d > 0 adds its contribution to J and nubar of the
\* shell the packet occupied before the move, the shell being left at a crossing,
\* and to no other; nothing but such a move changes J or nubar, and what a move adds
\* is positive, the comoving energy and frequency of the packet being positive
C26_EstimatorsOfTheShellLeft ==
    [][/\ MovedBy({"OUTER"}, d_outer') => Contributed(d_outer')
       /\ MovedBy({"INNER"}, d_inner') => Contributed(d_inner')
       /\ MovedBy({"ELECTRON"}, d_electron') => Contributed(d_electron')
       /\ MovedBy({"LINE_INTERACTION", "LINE_ACTIVATION"}, d_line')
          => Contributed(d_line')
       /\ <<js, nubars>>' # <<js, nubars>>
          => \/ MovedBy({"OUTER"}, d_outer')
             \/ MovedBy({"INNER"}, d_inner')
             \/ MovedBy({"ELECTRON"}, d_electron')
             \/ MovedBy({"LINE_INTERACTION", "LINE_ACTIVATION"}, d_line')
       /\ pc = "loop"
          => /\ RLt(Whole(0), RMul(current_energy, DopplerFactor(current_r, current_mu)))
             /\ RLt(Whole(0), RMul(current_nu, DopplerFactor(current_r, current_mu)))]_vars

\* a packet has crossed from the first shell into the second: the estimators of the
\* first hold its path, those of the second nothing yet
C26_LeftFirstShell ==
    /\ pc = "loop" /\ event = "OUTER" /\ current_shell_id = 1
    /\ RLt(Whole(0), js[0]) /\ RLt(Whole(0), nubars[0])
    /\ js[1] = Whole(0) /\ nubars[1] = Whole(0)

\* C27 as stated: with last_line = 1 the d_line used in the event selection is 0,
\* as it is with close_line = 1
C27_LastLineDistanceZero ==
    [][(pc = "loop" /\ (last_line = 1 \/ close_line = 1)) => d_line' = Whole(0)]_vars

\* C27, amended: with close_line = 1 the d_line used in the event selection is 0;
\* with last_line = 1 (and close_line = 0) it is miss_distance, so that no LINE
\* event is selected
C27_LastLineDistanceMiss ==
    [][/\ (pc = "loop" /\ close_line = 1) => d_line' = Whole(0)
       /\ (pc = "loop" /\ close_line = 0 /\ last_line = 1)
          => (d_line' = miss_distance /\ event' \notin LineEvents)]_vars

\* a packet that passed the close lines to the end of the list has left through
\* the outer boundary with d_line = miss_distance
C27_EscapedPastLastLine ==
    /\ pc = "returned" /\ event = "OUTER" /\ last_line = 1
    /\ d_line = miss_distance /\ current_line_id = storage.no_of_lines
    /\ tau_event = Whole(22)

\* C28: once last_line = 1 the LINE handler does not run again for the packet, and
\* close_line is never 1 while last_line = 1; so the LINE handler never reads
\* tau_sobolev at line index L
C28_NoLineAfterLast ==
    [][pc = "loop" =>
          /\ last_line = 1 => event' \notin LineEvents
          /\ ~(last_line = 1 /\ close_line = 1)
          /\ event' \in LineEvents => current_line_id < storage.no_of_lines]_vars

\* the indices at which the top of an iteration reads line_list_nu: nu_line at line
\* 536 and, when d_line is computed, the previous and the next line handed to
\* compute_distance2line at line 570
TopReads ==
    IF last_line = 1 THEN {}
    ELSE IF close_line = 1 THEN {current_line_id}
    ELSE {current_line_id - 1, current_line_id, current_line_id + 1}

\* C29: every read of line_list_nu uses an index in [0, L): the reads at the top of
\* an iteration, the emitted line's frequency after an interaction and the line of
\* the close-line check
C29_LineListReads ==
    /\ pc = "loop" => TopReads \subseteq 0 .. storage.no_of_lines - 1
    /\ (pc = "loop" /\ event = "LINE_INTERACTION")
       => emission_line_id \in 0 .. storage.no_of_lines - 1
    /\ (pc = "loop" /\ event \in {"LINE_INTERACTION", "LINE_PASSED"} /\ last_line = 0)
       => current_line_id \in 0 .. storage.no_of_lines - 1

\* C30: for every packet count N >= 1, N < 5 included, the driver goes from the top
\* of its loop into the event loop of packet i, the packets taken in index order:
\* the progress report never fails or stops the run
C30_ProgressReportHarmless ==
    [][pc = "driver" => (pc' = "loop" /\ event' = "START" /\ i' = i)]_vars

=============================================================================
